---- MODULE Spec2Model ----
(***************************************************************************)
(* Model of the talks board server: the Router (src/router.js) and the     *)
(* SkillShareServer with its five route handlers (src/unnamed/part_000).   *)
(*                                                                         *)
(* JavaScript strings that the code inspects (paths, header values, ETags, *)
(* titles) are sequences of character codes, so that the regular           *)
(* expressions, decodeURIComponent, the template literals and the loose    *)
(* comparison of a string with a number are computed as the code computes  *)
(* them.  Request bodies are already-tokenised JSON texts.                 *)
(***************************************************************************)
EXTENDS Integers, Sequences, FiniteSets, TLC

VARIABLES talks, version, waiting, waiters, reading, saved, response,
          crashed, last

vars ==
    <<talks, version, waiting, waiters, reading, saved, response, crashed,
      last>>

(***************************************************************************)
(* Bounds of the model.                                                    *)
(***************************************************************************)
\* mutations are accepted while version < MaxVersion
MaxVersion == 2
\* number of waitForChanges calls in one run
MaxWaiters == 2
\* number of PUT/POST requests whose body is being read at the same time
MaxInflight == 1

(***************************************************************************)
(* JavaScript strings.                                                     *)
(***************************************************************************)
\* the printable ASCII characters, code 32 first (the grave accent, code 96,
\* is spelled out)
Chars ==
    <<" ", "!", "\"", "#", "$", "%", "&", "'", "(", ")", "*", "+", ",", "-",
      ".", "/", "0", "1", "2", "3", "4", "5", "6", "7", "8", "9", ":", ";",
      "<", "=", ">", "?", "@", "A", "B", "C", "D", "E", "F", "G", "H", "I",
      "J", "K", "L", "M", "N", "O", "P", "Q", "R", "S", "T", "U", "V", "W",
      "X", "Y", "Z", "[", "\\", "]", "^", "_", "grave", "a", "b", "c", "d", "e",
      "f", "g", "h", "i", "j", "k", "l", "m", "n", "o", "p", "q", "r", "s",
      "t", "u", "v", "w", "x", "y", "z", "{", "|", "}", "~">>

\* the character code of a one-character string
Ord(c) == 31 + (CHOOSE i \in 1..Len(Chars) : Chars[i] = c)

\* a string literal, written as a tuple of one-character strings
Str(s) == [i \in 1..Len(s) |-> Ord(s[i])]

\* the codes of the characters the code looks for
Digit0 == Ord("0")

Digit9 == Ord("9")

LowerA == Ord("a")

LowerZ == Ord("z")

LowerF == Ord("f")

UpperA == Ord("A")

UpperZ == Ord("Z")

UpperF == Ord("F")

Underscore == Ord("_")

Percent == Ord("%")

Slash == Ord("/")

QuestionMark == Ord("?")

NumberSign == Ord("#")

Quote == Ord("\"")

PlusSign == Ord("+")

MinusSign == Ord("-")

LowerX == Ord("x")

UpperX == Ord("X")

\* s.slice(from - 1, to) with one-based inclusive bounds
Slice(s, from, to) == [i \in 1..(to - from + 1) |-> s[from + i - 1]]

StartsWith(s, p) == Len(s) >= Len(p) /\ Slice(s, 1, Len(p)) = p

EndsWith(s, p) == Len(s) >= Len(p) /\ Slice(s, Len(s) - Len(p) + 1, Len(s)) = p

Positions(s, c) == {i \in 1..Len(s) : s[i] = c}

Min(S) == CHOOSE x \in S : \A y \in S : x <= y

Max(S) == CHOOSE x \in S : \A y \in S : x >= y

IsDigit(c) == c >= Digit0 /\ c <= Digit9

\* \w of a regular expression
IsWordChar(c) ==
    \/ IsDigit(c)
    \/ c >= LowerA /\ c <= LowerZ
    \/ c >= UpperA /\ c <= UpperZ
    \/ c = Underscore

IsHexDigit(c) ==
    \/ IsDigit(c)
    \/ c >= LowerA /\ c <= LowerF
    \/ c >= UpperA /\ c <= UpperF

HexVal(c) ==
    IF IsDigit(c) THEN c - Digit0
    ELSE IF c >= LowerA THEN c - LowerA + 10
    ELSE c - UpperA + 10

RECURSIVE DecimalValue(_)
\* the value of a string of decimal digits
DecimalValue(s) ==
    IF Len(s) = 0 THEN 0
    ELSE 10 * DecimalValue(Slice(s, 1, Len(s) - 1)) + (s[Len(s)] - Digit0)

RECURSIVE HexValue(_)
HexValue(s) ==
    IF Len(s) = 0 THEN 0
    ELSE 16 * HexValue(Slice(s, 1, Len(s) - 1)) + HexVal(s[Len(s)])

RECURSIVE NumberToString(_)
\* String(n) of a non-negative integer, as the template literal `${n}` gives
NumberToString(n) ==
    IF n < 10 THEN <<Digit0 + n>>
    ELSE NumberToString(n \div 10) \o <<Digit0 + (n % 10)>>

(***************************************************************************)
(* decodeURIComponent (src/router.js line 57).                             *)
(***************************************************************************)
\* the octet of the escape %HH that starts at position k; -1 if none starts
PctByte(s, k) ==
    IF /\ k + 2 <= Len(s)
       /\ s[k] = Percent
       /\ IsHexDigit(s[k + 1])
       /\ IsHexDigit(s[k + 2])
    THEN 16 * HexVal(s[k + 1]) + HexVal(s[k + 2])
    ELSE -1

\* number of octets of the UTF-8 sequence led by octet b; 0 if b leads none
Utf8Length(b) ==
    IF b < 128 THEN 1
    ELSE IF b < 192 THEN 0
    ELSE IF b < 224 THEN 2
    ELSE IF b < 240 THEN 3
    ELSE IF b < 248 THEN 4
    ELSE 0

IsContinuation(b) == b >= 128 /\ b < 192

\* well-formed UTF-8: no overlong form, no surrogate, nothing above 10FFFF
ValidUtf8(o) ==
    /\ \A j \in 2..Len(o) : IsContinuation(o[j])
    /\ Len(o) = 2 => o[1] >= 194
    /\ Len(o) = 3 => /\ o[1] = 224 => o[2] >= 160
                     /\ o[1] = 237 => o[2] < 160
    /\ Len(o) = 4 => /\ o[1] <= 244
                     /\ o[1] = 240 => o[2] >= 144
                     /\ o[1] = 244 => o[2] < 144

CodePoint(o) ==
    IF Len(o) = 2 THEN (o[1] - 192) * 64 + (o[2] - 128)
    ELSE IF Len(o) = 3
    THEN (o[1] - 224) * 4096 + (o[2] - 128) * 64 + (o[3] - 128)
    ELSE (o[1] - 240) * 262144 + (o[2] - 128) * 4096
         + (o[3] - 128) * 64 + (o[4] - 128)

\* the UTF-16 code units of a code point
Utf16(v) ==
    IF v < 65536 THEN <<v>>
    ELSE <<55296 + ((v - 65536) \div 1024), 56320 + ((v - 65536) % 1024)>>

URIError == [threw |-> TRUE, value |-> <<>>]

RECURSIVE Decode(_, _, _)
Decode(s, k, acc) ==
    IF k > Len(s) THEN [threw |-> FALSE, value |-> acc]
    ELSE IF s[k] # Percent THEN Decode(s, k + 1, Append(acc, s[k]))
    ELSE LET B == PctByte(s, k)
             n == Utf8Length(B)
             octets == [j \in 1..n |-> PctByte(s, k + 3 * (j - 1))]
         IN  IF B = -1 THEN URIError
             ELSE IF B < 128 THEN Decode(s, k + 3, Append(acc, B))
             ELSE IF n = 0 \/ (\E j \in 2..n : octets[j] = -1) THEN URIError
             ELSE IF ~ValidUtf8(octets) THEN URIError
             ELSE Decode(s, k + 3 * n, acc \o Utf16(CodePoint(octets)))

\* the captured segment handed on as it is in the path
decodeURIComponent_identity(s) == [threw |-> FALSE, value |-> s]

\* [threw |-> TRUE] stands for the URIError the function throws
decodeURIComponent(s) == Decode(s, 1, <<>>)

(***************************************************************************)
(* The route patterns (src/unnamed/part_000 lines 12-22).                  *)
(***************************************************************************)
NoMatch == [matched |-> FALSE, groups |-> <<>>]

TalksPrefix == Str(<<"/", "t", "a", "l", "k", "s", "/">>)

CommentsSuffix == Str(<<"/", "c", "o", "m", "m", "e", "n", "t", "s">>)

NoSlash(s) == \A i \in 1..Len(s) : s[i] # Slash

\* the pattern without its end anchor: /^\/talks\/([^\/]+)/
talkPath_unanchored(path) ==
    LET rest == Slice(path, Len(TalksPrefix) + 1, Len(path))
        stop == Positions(rest, Slash) \cup {Len(rest) + 1}
        title == Slice(rest, 1, Min(stop) - 1)
    IN  IF StartsWith(path, TalksPrefix) /\ Len(title) >= 1
        THEN [matched |-> TRUE, groups |-> <<title>>]
        ELSE NoMatch

\* /^\/talks\/([^\/]+)$/
talkPath(path) ==
    LET title == Slice(path, Len(TalksPrefix) + 1, Len(path))
    IN  IF StartsWith(path, TalksPrefix) /\ Len(title) >= 1 /\ NoSlash(title)
        THEN [matched |-> TRUE, groups |-> <<title>>]
        ELSE NoMatch

\* /^\/talks\/([^\/]+)\/comments$/
talkPathAddComment(path) ==
    LET title == Slice(path, Len(TalksPrefix) + 1,
                       Len(path) - Len(CommentsSuffix))
    IN  IF /\ Len(path) > Len(TalksPrefix) + Len(CommentsSuffix)
           /\ StartsWith(path, TalksPrefix)
           /\ EndsWith(path, CommentsSuffix)
           /\ NoSlash(title)
        THEN [matched |-> TRUE, groups |-> <<title>>]
        ELSE NoMatch

\* /^\/talks$/
talksPath(path) ==
    IF path = Str(<<"/", "t", "a", "l", "k", "s">>)
    THEN [matched |-> TRUE, groups |-> <<>>]
    ELSE NoMatch

\* urlRegEx.exec(path), the pattern given by its name
exec(urlRegEx, path) ==
    CASE urlRegEx = "talkPath" -> talkPath(path)
      [] urlRegEx = "talkPathAddComment" -> talkPathAddComment(path)
      [] urlRegEx = "talksPath" -> talksPath(path)

\* router.routes: the routes in the order of the router.add calls, which
\* run when the module is loaded
routes ==
    << [method |-> "GET", urlRegEx |-> "talkPath", handler |-> "getTalk"],
       [method |-> "DELETE", urlRegEx |-> "talkPath", handler |-> "deleteTalk"],
       [method |-> "PUT", urlRegEx |-> "talkPath", handler |-> "putTalk"],
       [method |-> "POST", urlRegEx |-> "talkPathAddComment",
        handler |-> "postComment"],
       [method |-> "GET", urlRegEx |-> "talksPath", handler |-> "getTalks"] >>

(***************************************************************************)
(* Router.resolve (src/router.js lines 42-62).                             *)
(***************************************************************************)
\* parse(request.url).pathname: the target up to its query or fragment
Pathname(url) ==
    LET cut == Positions(url, QuestionMark) \cup Positions(url, NumberSign)
    IN  IF cut = {} THEN url ELSE Slice(url, 1, Min(cut) - 1)

RECURSIVE resolveFrom(_, _, _)
\* the loop over this.routes from index i on; type "null" is the null that
\* resolve returns, type "throws" the URIError that leaves resolve
resolveFrom(rts, i, request) ==
    IF i > Len(rts)
    THEN [type |-> "null", handler |-> "none", urlParts |-> <<>>]
    ELSE LET match == exec(rts[i].urlRegEx, Pathname(request.url))
             decoded == [j \in 1..Len(match.groups) |->
                            decodeURIComponent(match.groups[j])]
         IN  IF ~match.matched \/ request.method # rts[i].method
             THEN resolveFrom(rts, i + 1, request)
             ELSE IF \E j \in 1..Len(decoded) : decoded[j].threw
             THEN [type |-> "throws", handler |-> rts[i].handler,
                   urlParts |-> <<>>]
             ELSE [type |-> "handler", handler |-> rts[i].handler,
                   urlParts |-> [j \in 1..Len(decoded) |-> decoded[j].value]]

resolve(rts, request) == resolveFrom(rts, 1, request)

(***************************************************************************)
(* The request headers as the GET /talks handler reads them                *)
(* (src/unnamed/part_000 lines 315-318).                                   *)
(***************************************************************************)
Absent == [present |-> FALSE, value |-> <<>>]

Header(value) == [present |-> TRUE, value |-> value]

\* the string a regular expression is run on: String(undefined) if absent
HeaderText(h) ==
    IF h.present THEN h.value
    ELSE Str(<<"u", "n", "d", "e", "f", "i", "n", "e", "d">>)

\* /"(.*)"/.exec(text): from the first quote to the last one
tagExec(text) ==
    LET q == Positions(text, Quote)
    IN  IF Cardinality(q) < 2 THEN NoMatch
        ELSE [matched |-> TRUE,
              groups |-> <<Slice(text, Min(q) + 1, Max(q) - 1)>>]

WaitWord == Str(<<"w", "a", "i", "t", "=">>)

\* /\bwait=(\d+)/.exec(text): the leftmost wait= at a word boundary that a
\* digit follows, and the digits after it
waitExec(text) ==
    LET starts == {i \in 1..Len(text) :
                      /\ i + Len(WaitWord) <= Len(text)
                      /\ Slice(text, i, i + Len(WaitWord) - 1) = WaitWord
                      /\ i = 1 \/ ~IsWordChar(text[i - 1])
                      /\ IsDigit(text[i + Len(WaitWord)])}
        from == Min(starts) + Len(WaitWord)
        ends == {j \in from..Len(text) :
                      /\ \A k \in from..j : IsDigit(text[k])
                      /\ j = Len(text) \/ ~IsDigit(text[j + 1])}
    IN  IF starts = {} THEN NoMatch
        ELSE [matched |-> TRUE, groups |-> <<Slice(text, from, Min(ends))>>]

IsWhiteSpace(c) == c \in {9, 10, 11, 12, 13, 32}

RECURSIVE Trim(_)
Trim(s) ==
    IF Len(s) = 0 THEN s
    ELSE IF IsWhiteSpace(s[1]) THEN Trim(Slice(s, 2, Len(s)))
    ELSE IF IsWhiteSpace(s[Len(s)]) THEN Trim(Slice(s, 1, Len(s) - 1))
    ELSE s

NaN == [nan |-> TRUE, n |-> 0]

Num(n) == [nan |-> FALSE, n |-> n]

\* ToNumber of a string, for strings of digits, signed digits and 0x
\* literals; the fractional, exponent, Infinity, 0o and 0b forms are not
\* part of the modelled header values
ToNumber(str) ==
    LET t == Trim(str)
        signed == Len(t) >= 2 /\ t[1] \in {PlusSign, MinusSign}
        digits == IF signed THEN Slice(t, 2, Len(t)) ELSE t
        hex == Slice(t, 3, Len(t))
    IN  IF Len(t) = 0 THEN Num(0)
        ELSE IF \A i \in 1..Len(digits) : IsDigit(digits[i])
        THEN IF signed /\ t[1] = MinusSign
             THEN Num(0 - DecimalValue(digits))
             ELSE Num(DecimalValue(digits))
        ELSE IF /\ Len(t) >= 3
                /\ t[1] = Digit0
                /\ t[2] \in {LowerX, UpperX}
                /\ \A i \in 1..Len(hex) : IsHexDigit(hex[i])
        THEN Num(HexValue(hex))
        ELSE NaN

\* str != num of JavaScript: the string is converted to a number first
LooseNotEqual(str, num) ==
    LET v == ToNumber(str)
    IN  v.nan \/ v.n # num

(***************************************************************************)
(* Request bodies and JSON values.                                         *)
(***************************************************************************)
JNull == [t |-> "null", v |-> <<>>]

JString(x) == [t |-> "string", v |-> x]

JNumber(x) == [t |-> "number", v |-> x]

\* an object, its members in source order
JObject(members) == [t |-> "object", v |-> members]

\* typeof value[name]
TypeofMember(value, name) ==
    IF value.t # "object" THEN "undefined"
    ELSE LET at == {i \in 1..Len(value.v) : value.v[i][1] = name}
         IN  IF at = {} THEN "undefined"
             ELSE IF value.v[Max(at)][2].t = "null" THEN "object"
             ELSE value.v[Max(at)][2].t

\* value[name], for a member that is a string
Member(value, name) ==
    value.v[Max({i \in 1..Len(value.v) : value.v[i][1] = name})][2].v

\* !value
Falsy(value) ==
    \/ value.t = "null"
    \/ value.t = "number" /\ value.v = "0"
    \/ value.t = "string" /\ value.v = ""

\* JSON.parse(requestBody): the SyntaxError or the value
JSONparse(requestBody) ==
    [threw |-> requestBody.syntaxError, value |-> requestBody.json]

(***************************************************************************)
(* The talks object (src/unnamed/part_000 line 39): the talks in the       *)
(* order of Object.keys, which is the order of insertion except that keys  *)
(* that are array indices come first, in ascending order.                  *)
(***************************************************************************)
\* a canonical numeral below 2^32 - 1; titles of ten digits are not modelled
IsArrayIndex(key) ==
    /\ Len(key) >= 1
    /\ Len(key) <= 9
    /\ \A i \in 1..Len(key) : IsDigit(key[i])
    /\ NumberToString(DecimalValue(key)) = key

\* title in server.talks
HasTalk(tks, title) == \E i \in 1..Len(tks) : tks[i].title = title

IndexOfTalk(tks, title) == CHOOSE i \in 1..Len(tks) : tks[i].title = title

\* server.talks[title] = talk
SetTalk(tks, title, talk) ==
    IF HasTalk(tks, title)
    THEN [tks EXCEPT ![IndexOfTalk(tks, title)] = talk]
    ELSE IF IsArrayIndex(title)
    THEN LET before == {i \in 1..Len(tks) :
                           /\ IsArrayIndex(tks[i].title)
                           /\ DecimalValue(tks[i].title) < DecimalValue(title)}
             n == Cardinality(before)
         IN  Slice(tks, 1, n) \o <<talk>> \o Slice(tks, n + 1, Len(tks))
    ELSE Append(tks, talk)

\* delete server.talks[title]
DeleteTalk(tks, title) ==
    LET i == IndexOfTalk(tks, title)
    IN  Slice(tks, 1, i - 1) \o Slice(tks, i + 1, Len(tks))

(***************************************************************************)
(* Response descriptors and what the server writes for them                *)
(* (src/unnamed/part_000 lines 57-67).                                     *)
(***************************************************************************)
NoBody == [kind |-> "undefined", value |-> <<>>]

TextBody(text) == [kind |-> "text", value |-> text]

\* `No talk '${title}' found`
NoTalkFound(title) == [kind |-> "No talk found", value |-> title]

\* JSON.stringify(talks) of the array of talks
StringifyTalks(tks) == [kind |-> "json array", value |-> tks]

\* JSON.stringify(server.talks[title]) of one talk
StringifyTalk(talk) == [kind |-> "json object", value |-> talk]

defaultHeaders == [ContentType |-> "text/plain"]

\* the destructuring ({body, status = 200, headers = defaultHeaders}) and
\* the writeHead/end calls, for the request or waiter `to`
Write(to, descriptor) ==
    [to |-> to,
     status |-> IF "status" \in DOMAIN descriptor
                THEN descriptor.status ELSE 200,
     headers |-> IF "headers" \in DOMAIN descriptor
                 THEN descriptor.headers ELSE defaultHeaders,
     body |-> IF "body" \in DOMAIN descriptor
              THEN descriptor.body ELSE NoBody]

\* talkResponse() on the given talks and version
talkResponse(tks, ver) ==
    [body |-> StringifyTalks(tks),
     headers |-> [ContentType |-> "application/json",
                  ETag |-> <<Quote>> \o NumberToString(ver)
                              \o <<Quote>>]]

(***************************************************************************)
(* The state.                                                              *)
(*   talks    server.talks                                                 *)
(*   version  server.version                                               *)
(*   waiters  the waitForChanges calls whose timer has not run yet, in the *)
(*            order of the calls: the version at the call, the time        *)
(*            argument and how often resolve was called.  Once the timer   *)
(*            has run nothing in the process refers to the call.           *)
(*   waiting  server.waiting: the resolve functions of the open requests,  *)
(*            each named by the place of its call in waiters               *)
(*   reading  the PUT and POST handlers suspended in readStream            *)
(*   saved    the text handed to the latest writeFile call, if any         *)
(*   response the response built by the latest updated() call, if any      *)
(*   crashed  an exception left the request callback; the process is gone  *)
(*   last     the event handled last: the request, how it was resolved,    *)
(*            and the responses written while handling it                  *)
(* The process constructs the server with empty talks and starts it at    *)
(* once (src/unnamed/part_000 lines 331-332); start() calls loadTalks()     *)
(* before it listens, so the first event finds what talks.json held.       *)
(***************************************************************************)
NoHeaders == [ifNoneMatch |-> Absent, prefer |-> Absent]

NoRequest == [method |-> "none", url |-> <<>>, headers |-> NoHeaders]

NoRequestBody == [syntaxError |-> FALSE, json |-> JNull]

NoEvent ==
    [event |-> "none", request |-> NoRequest, resolved |-> "none",
     handler |-> "none", title |-> <<>>, requestBody |-> NoRequestBody,
     waiter |-> 0, pending |-> FALSE, responses |-> {}]

\* this.waiting.includes(resolve)
InWaiting(w, id) == \E i \in 1..Len(w) : w[i] = id

\* the responses written to long-polling requests in a step: the promise of
\* a waiter settles with the first value resolve is called with
WaiterWrites(before, after) ==
    {Write(j, response'[1]) :
        j \in {k \in 1..Len(before) :
                  before[k].calls = 0 /\ after[k].calls > 0}}

\* talks.json when the process starts: missing, or what an earlier run of
\* the server wrote
NoFile == [found |-> FALSE, syntaxError |-> FALSE, talks |-> <<>>]

Files ==
    { NoFile,
      [found |-> TRUE, syntaxError |-> TRUE, talks |-> <<>>],
      [found |-> TRUE, syntaxError |-> FALSE,
       talks |-> << [title |-> Str(<<"a">>),
                     presenter |-> "Bo",
                     summary |-> "Old",
                     comments |->
                        << JObject(<< <<"author", JString("Di")>>,
                                      <<"message", JString("Ok")>> >>) >>] >>] }

\* loadTalks() (src/unnamed/part_000 lines 151-168) on talks constructed
\* as tks: a missing or unparsable file leaves them as they are
loadTalks(tks, file) ==
    IF file.found /\ ~file.syntaxError THEN file.talks ELSE tks

Init ==
    /\ \E file \in Files : talks = loadTalks(<<>>, file)
    /\ version = 0
    /\ waiting = <<>>
    /\ waiters = <<>>
    /\ reading = <<>>
    /\ saved = <<>>
    /\ response = <<>>
    /\ crashed = FALSE
    /\ last = NoEvent

(***************************************************************************)
(* SkillShareServer.updated (src/unnamed/part_000 lines 140-146), called   *)
(* after the handler has changed server.talks to tks.                      *)
(***************************************************************************)
\* updated() that builds the response before it increments the version
updated_responseFirst(tks) ==
    LET built == talkResponse(tks, version)
    IN  /\ version' = version + 1
        /\ response' = <<built>>
        /\ waiters' = [i \in 1..Len(waiters) |->
                          IF InWaiting(waiting, i)
                          THEN [waiters[i] EXCEPT !.calls = @ + 1]
                          ELSE waiters[i]]
        /\ waiting' = <<>>
        /\ saved' = <<StringifyTalks(tks)>>

\* updated() that passes over the last element of this.waiting
updated_skipsLast(tks) ==
    LET built == talkResponse(tks, version + 1)
    IN  /\ version' = version + 1
        /\ response' = <<built>>
        /\ waiters' = [i \in 1..Len(waiters) |->
                          IF InWaiting(SubSeq(waiting, 1, Len(waiting) - 1),
                                       i)
                          THEN [waiters[i] EXCEPT !.calls = @ + 1]
                          ELSE waiters[i]]
        /\ waiting' = <<>>
        /\ saved' = <<StringifyTalks(tks)>>

\* updated() that does not empty this.waiting
updated_keepsWaiting(tks) ==
    LET built == talkResponse(tks, version + 1)
    IN  /\ version' = version + 1
        /\ response' = <<built>>
        /\ waiters' = [i \in 1..Len(waiters) |->
                          IF InWaiting(waiting, i)
                          THEN [waiters[i] EXCEPT !.calls = @ + 1]
                          ELSE waiters[i]]
        /\ UNCHANGED waiting
        /\ saved' = <<StringifyTalks(tks)>>

updated(tks) ==
    LET built == talkResponse(tks, version + 1)
    IN  /\ version' = version + 1
        /\ response' = <<built>>
        /\ waiters' = [i \in 1..Len(waiters) |->
                          IF InWaiting(waiting, i)
                          THEN [waiters[i] EXCEPT !.calls = @ + 1]
                          ELSE waiters[i]]
        /\ waiting' = <<>>
        /\ saved' = <<StringifyTalks(tks)>>

(***************************************************************************)
(* The route handlers.  Each runs to its first await or to its end in one  *)
(* step, and the response of a settled promise is written in that step.    *)
(***************************************************************************)
Handled(request, handler, title, responses) ==
    [NoEvent EXCEPT !.event = "request", !.request = request,
                    !.resolved = "handler", !.handler = handler,
                    !.title = title, !.responses = responses]

\* GET without the else branch: an absent title gets the default answer
getTalk_noElse(request, title) ==
    LET descriptor ==
            IF HasTalk(talks, title)
            THEN [body |-> StringifyTalk(talks[IndexOfTalk(talks, title)]),
                  headers |-> [ContentType |-> "application/json"]]
            ELSE [body |-> NoBody]
    IN  /\ last' = Handled(request, "getTalk", title, {Write(0, descriptor)})
        /\ UNCHANGED <<talks, version, waiting, waiters, reading, saved,
                       response, crashed>>

\* GET /talks/{title} (src/unnamed/part_000 lines 186-200)
getTalk(request, title) ==
    LET descriptor ==
            IF HasTalk(talks, title)
            THEN [body |-> StringifyTalk(talks[IndexOfTalk(talks, title)]),
                  headers |-> [ContentType |-> "application/json"]]
            ELSE [status |-> 404, body |-> NoTalkFound(title)]
    IN  /\ last' = Handled(request, "getTalk", title, {Write(0, descriptor)})
        /\ UNCHANGED <<talks, version, waiting, waiters, reading, saved,
                       response, crashed>>

\* DELETE that calls updated() whether or not the title is present
deleteTalk_always(request, title) ==
    /\ version < MaxVersion
    /\ talks' = IF HasTalk(talks, title) THEN DeleteTalk(talks, title)
                ELSE talks
    /\ updated(talks')
    /\ last' = Handled(request, "deleteTalk", title,
                       {Write(0, [status |-> 204])}
                           \cup WaiterWrites(waiters, waiters'))
    /\ UNCHANGED <<reading, crashed>>

\* DELETE that deletes the property named "title", which no talk is
\* stored under, and not the one the variable names
deleteTalk_literalKey(request, title) ==
    /\ IF HasTalk(talks, title)
       THEN /\ version < MaxVersion
            /\ talks' = talks
            /\ updated(talks')
       ELSE UNCHANGED <<talks, version, waiting, waiters, saved, response>>
    /\ last' = Handled(request, "deleteTalk", title,
                       {Write(0, [status |-> 204])}
                           \cup WaiterWrites(waiters, waiters'))
    /\ UNCHANGED <<reading, crashed>>

\* DELETE that removes the talk and does not call updated()
deleteTalk_silent(request, title) ==
    /\ IF HasTalk(talks, title)
       THEN /\ talks' = DeleteTalk(talks, title)
            /\ UNCHANGED <<version, waiting, waiters, saved, response>>
       ELSE UNCHANGED <<talks, version, waiting, waiters, saved, response>>
    /\ last' = Handled(request, "deleteTalk", title,
                       {Write(0, [status |-> 204])})
    /\ UNCHANGED <<reading, crashed>>

\* DELETE /talks/{title} (src/unnamed/part_000 lines 203-209)
deleteTalk(request, title) ==
    /\ IF HasTalk(talks, title)
       THEN /\ version < MaxVersion
            /\ talks' = DeleteTalk(talks, title)
            /\ updated(talks')
       ELSE UNCHANGED <<talks, version, waiting, waiters, saved, response>>
    /\ last' = Handled(request, "deleteTalk", title,
                       {Write(0, [status |-> 204])}
                           \cup WaiterWrites(waiters, waiters'))
    /\ UNCHANGED <<reading, crashed>>

\* PUT /talks/{title} up to the await of readStream
\* (src/unnamed/part_000 lines 235-237)
putTalk(request, title) ==
    /\ Len(reading) < MaxInflight
    /\ reading' = Append(reading, [handler |-> "putTalk", title |-> title])
    /\ last' = Handled(request, "putTalk", title, {})
    /\ UNCHANGED <<talks, version, waiting, waiters, saved,
                   response, crashed>>

\* POST /talks/{title}/comments up to the await of readStream
\* (src/unnamed/part_000 lines 273-276)
postComment(request, title) ==
    /\ Len(reading) < MaxInflight
    /\ reading' = Append(reading, [handler |-> "postComment",
                                   title |-> title])
    /\ last' = Handled(request, "postComment", title, {})
    /\ UNCHANGED <<talks, version, waiting, waiters, saved,
                   response, crashed>>

\* SkillShareServer.waitForChanges (src/unnamed/part_000 lines 115-135):
\* the promise is created, resolve is pushed and the timer is set
waitForChanges(time) ==
    /\ Len(waiters) < MaxWaiters
    /\ waiters' = Append(waiters, [ver |-> version, time |-> time,
                                   calls |-> 0])
    /\ waiting' = Append(waiting, Len(waiters) + 1)

\* tag[1] !== server.version: a string is never identical to a number
TagDiffers_strict(tag, ver) == TRUE

\* tag[1] != server.version (src/unnamed/part_000 line 318)
TagDiffers(tag, ver) == LooseNotEqual(tag.groups[1], ver)

\* GET /talks (src/unnamed/part_000 lines 313-329)
getTalks(request) ==
    \E tag \in {tagExec(HeaderText(request.headers.ifNoneMatch))},
       wait \in {waitExec(HeaderText(request.headers.prefer))} :
        IF ~tag.matched \/ TagDiffers(tag, version)
        THEN /\ last' = Handled(request, "getTalks", <<>>,
                                {Write(0, talkResponse(talks, version))})
             /\ UNCHANGED <<talks, version, waiting, waiters, reading, saved,
                            response, crashed>>
        ELSE IF ~wait.matched
        THEN /\ last' = Handled(request, "getTalks", <<>>,
                                {Write(0, [status |-> 304])})
             /\ UNCHANGED <<talks, version, waiting, waiters, reading, saved,
                            response, crashed>>
        ELSE /\ waitForChanges(DecimalValue(wait.groups[1]))
             /\ last' = [Handled(request, "getTalks", <<>>, {})
                            EXCEPT !.waiter = Len(waiters) + 1,
                                   !.pending = TRUE]
             /\ UNCHANGED <<talks, version, reading, saved,
                            response, crashed>>

RemoveAt(seq, i) == Slice(seq, 1, i - 1) \o Slice(seq, i + 1, Len(seq))

Continued(event, r, requestBody, responses) ==
    [NoEvent EXCEPT !.event = event, !.handler = r.handler,
                    !.title = r.title, !.requestBody = requestBody,
                    !.responses = responses]

\* PUT that stores the summary of the body as the presenter too
putTalkBody_summaryTwice(i, requestBody) ==
    LET r == reading[i]
        parsed == JSONparse(requestBody)
        talk == parsed.value
    IN  /\ r.handler = "putTalk"
        /\ reading' = RemoveAt(reading, i)
        /\ IF parsed.threw
           THEN /\ last' = Continued("end", r, requestBody,
                               {Write(0, [status |-> 400,
                                          body |-> TextBody("Invalid JSON")])})
                /\ UNCHANGED <<talks, version, waiting, waiters,
                               saved, response>>
           ELSE IF \/ Falsy(talk)
                   \/ TypeofMember(talk, "presenter") # "string"
                   \/ TypeofMember(talk, "summary") # "string"
           THEN /\ last' = Continued("end", r, requestBody,
                               {Write(0, [status |-> 400,
                                          body |-> TextBody("Bad talk data")])})
                /\ UNCHANGED <<talks, version, waiting, waiters,
                               saved, response>>
           ELSE /\ version < MaxVersion
                /\ talks' = SetTalk(talks, r.title,
                               [title |-> r.title,
                                presenter |-> Member(talk, "summary"),
                                summary |-> Member(talk, "summary"),
                                comments |-> <<>>])
                /\ updated(talks')
                /\ last' = Continued("end", r, requestBody,
                               {Write(0, [status |-> 204])}
                                   \cup WaiterWrites(waiters, waiters'))
        /\ UNCHANGED <<crashed>>

\* PUT /talks/{title} after readStream has resolved to requestBody
\* (src/unnamed/part_000 lines 238-270)
putTalkBody(i, requestBody) ==
    LET r == reading[i]
        parsed == JSONparse(requestBody)
        talk == parsed.value
    IN  /\ r.handler = "putTalk"
        /\ reading' = RemoveAt(reading, i)
        /\ IF parsed.threw
           THEN /\ last' = Continued("end", r, requestBody,
                               {Write(0, [status |-> 400,
                                          body |-> TextBody("Invalid JSON")])})
                /\ UNCHANGED <<talks, version, waiting, waiters,
                               saved, response>>
           ELSE IF \/ Falsy(talk)
                   \/ TypeofMember(talk, "presenter") # "string"
                   \/ TypeofMember(talk, "summary") # "string"
           THEN /\ last' = Continued("end", r, requestBody,
                               {Write(0, [status |-> 400,
                                          body |-> TextBody("Bad talk data")])})
                /\ UNCHANGED <<talks, version, waiting, waiters,
                               saved, response>>
           ELSE /\ version < MaxVersion
                /\ talks' = SetTalk(talks, r.title,
                               [title |-> r.title,
                                presenter |-> Member(talk, "presenter"),
                                summary |-> Member(talk, "summary"),
                                comments |-> <<>>])
                /\ updated(talks')
                /\ last' = Continued("end", r, requestBody,
                               {Write(0, [status |-> 204])}
                                   \cup WaiterWrites(waiters, waiters'))
        /\ UNCHANGED <<crashed>>

\* POST of a comment that puts it in front of the comments of the talk
postCommentBody_unshift(i, requestBody) ==
    LET r == reading[i]
        parsed == JSONparse(requestBody)
        comment == parsed.value
        at == IndexOfTalk(talks, r.title)
    IN  /\ r.handler = "postComment"
        /\ reading' = RemoveAt(reading, i)
        /\ IF parsed.threw
           THEN /\ last' = Continued("end", r, requestBody,
                               {Write(0, [status |-> 400,
                                          body |-> TextBody("Invalid JSON")])})
                /\ UNCHANGED <<talks, version, waiting, waiters,
                               saved, response>>
           ELSE IF \/ Falsy(comment)
                   \/ TypeofMember(comment, "author") # "string"
                   \/ TypeofMember(comment, "message") # "string"
           THEN /\ last' = Continued("end", r, requestBody,
                               {Write(0, [status |-> 404,
                                          body |-> TextBody("Bad comment data")])})
                /\ UNCHANGED <<talks, version, waiting, waiters,
                               saved, response>>
           ELSE IF HasTalk(talks, r.title)
           THEN /\ version < MaxVersion
                /\ talks' = [talks EXCEPT
                                ![at].comments = <<comment>> \o @]
                /\ updated(talks')
                /\ last' = Continued("end", r, requestBody,
                               {Write(0, [status |-> 204])}
                                   \cup WaiterWrites(waiters, waiters'))
           ELSE /\ last' = Continued("end", r, requestBody,
                               {Write(0, [status |-> 404,
                                          body |-> NoTalkFound(r.title)])})
                /\ UNCHANGED <<talks, version, waiting, waiters,
                               saved, response>>
        /\ UNCHANGED <<crashed>>

\* POST of a comment that makes it the only comment of the talk
postCommentBody_overwrites(i, requestBody) ==
    LET r == reading[i]
        parsed == JSONparse(requestBody)
        comment == parsed.value
        at == IndexOfTalk(talks, r.title)
    IN  /\ r.handler = "postComment"
        /\ reading' = RemoveAt(reading, i)
        /\ IF parsed.threw
           THEN /\ last' = Continued("end", r, requestBody,
                               {Write(0, [status |-> 400,
                                          body |-> TextBody("Invalid JSON")])})
                /\ UNCHANGED <<talks, version, waiting, waiters,
                               saved, response>>
           ELSE IF \/ Falsy(comment)
                   \/ TypeofMember(comment, "author") # "string"
                   \/ TypeofMember(comment, "message") # "string"
           THEN /\ last' = Continued("end", r, requestBody,
                               {Write(0, [status |-> 404,
                                          body |-> TextBody("Bad comment data")])})
                /\ UNCHANGED <<talks, version, waiting, waiters,
                               saved, response>>
           ELSE IF HasTalk(talks, r.title)
           THEN /\ version < MaxVersion
                /\ talks' = [talks EXCEPT
                                ![at].comments = <<comment>>]
                /\ updated(talks')
                /\ last' = Continued("end", r, requestBody,
                               {Write(0, [status |-> 204])}
                                   \cup WaiterWrites(waiters, waiters'))
           ELSE /\ last' = Continued("end", r, requestBody,
                               {Write(0, [status |-> 404,
                                          body |-> NoTalkFound(r.title)])})
                /\ UNCHANGED <<talks, version, waiting, waiters,
                               saved, response>>
        /\ UNCHANGED <<crashed>>

\* POST of a comment that calls updated() before it answers 404 for a talk
\* that does not exist
postCommentBody_notifiesMissing(i, requestBody) ==
    LET r == reading[i]
        parsed == JSONparse(requestBody)
        comment == parsed.value
        at == IndexOfTalk(talks, r.title)
    IN  /\ r.handler = "postComment"
        /\ reading' = RemoveAt(reading, i)
        /\ IF parsed.threw
           THEN /\ last' = Continued("end", r, requestBody,
                               {Write(0, [status |-> 400,
                                          body |-> TextBody("Invalid JSON")])})
                /\ UNCHANGED <<talks, version, waiting, waiters,
                               saved, response>>
           ELSE IF \/ Falsy(comment)
                   \/ TypeofMember(comment, "author") # "string"
                   \/ TypeofMember(comment, "message") # "string"
           THEN /\ last' = Continued("end", r, requestBody,
                               {Write(0, [status |-> 404,
                                          body |-> TextBody("Bad comment data")])})
                /\ UNCHANGED <<talks, version, waiting, waiters,
                               saved, response>>
           ELSE IF HasTalk(talks, r.title)
           THEN /\ version < MaxVersion
                /\ talks' = [talks EXCEPT
                                ![at].comments = Append(@, comment)]
                /\ updated(talks')
                /\ last' = Continued("end", r, requestBody,
                               {Write(0, [status |-> 204])}
                                   \cup WaiterWrites(waiters, waiters'))
           ELSE /\ version < MaxVersion
                /\ talks' = talks
                /\ updated(talks')
                /\ last' = Continued("end", r, requestBody,
                               {Write(0, [status |-> 404,
                                          body |-> NoTalkFound(r.title)])}
                                   \cup WaiterWrites(waiters, waiters'))
        /\ UNCHANGED <<crashed>>

\* POST /talks/{title}/comments after readStream has resolved to requestBody
\* (src/unnamed/part_000 lines 277-310)
postCommentBody(i, requestBody) ==
    LET r == reading[i]
        parsed == JSONparse(requestBody)
        comment == parsed.value
        at == IndexOfTalk(talks, r.title)
    IN  /\ r.handler = "postComment"
        /\ reading' = RemoveAt(reading, i)
        /\ IF parsed.threw
           THEN /\ last' = Continued("end", r, requestBody,
                               {Write(0, [status |-> 400,
                                          body |-> TextBody("Invalid JSON")])})
                /\ UNCHANGED <<talks, version, waiting, waiters,
                               saved, response>>
           ELSE IF \/ Falsy(comment)
                   \/ TypeofMember(comment, "author") # "string"
                   \/ TypeofMember(comment, "message") # "string"
           THEN /\ last' = Continued("end", r, requestBody,
                               {Write(0, [status |-> 404,
                                          body |-> TextBody("Bad comment data")])})
                /\ UNCHANGED <<talks, version, waiting, waiters,
                               saved, response>>
           ELSE IF HasTalk(talks, r.title)
           THEN /\ version < MaxVersion
                /\ talks' = [talks EXCEPT
                                ![at].comments = Append(@, comment)]
                /\ updated(talks')
                /\ last' = Continued("end", r, requestBody,
                               {Write(0, [status |-> 204])}
                                   \cup WaiterWrites(waiters, waiters'))
           ELSE /\ last' = Continued("end", r, requestBody,
                               {Write(0, [status |-> 404,
                                          body |-> NoTalkFound(r.title)])})
                /\ UNCHANGED <<talks, version, waiting, waiters,
                               saved, response>>
        /\ UNCHANGED <<crashed>>

\* readStream rejects (src/unnamed/part_000 lines 219-223): the handler's
\* promise rejects and the catch of the request callback answers 500
\* (lines 58-61)
readStreamError(i) ==
    /\ reading' = RemoveAt(reading, i)
    /\ last' = Continued("error", reading[i], NoRequestBody,
                         {Write(0, [body |-> TextBody("String(error)"),
                                    status |-> 500])})
    /\ UNCHANGED <<talks, version, waiting, waiters, saved,
                   response, crashed>>

(***************************************************************************)
(* The timer of waitForChanges (src/unnamed/part_000 lines 118-133).       *)
(***************************************************************************)
\* timers set earlier for no longer a time run first
TimerDue(i) == \A j \in 1..(i - 1) : waiters[j].time > waiters[i].time

\* the names in w once the i-th call has left waiters
Renamed(w, i) == [k \in 1..Len(w) |-> IF w[k] > i THEN w[k] - 1 ELSE w[k]]

\* the timer callback of the i-th call: its return value goes nowhere
timeout(i) ==
    /\ IF ~InWaiting(waiting, i)
       THEN waiting' = Renamed(waiting, i)
       ELSE waiting' = Renamed(SelectSeq(waiting, LAMBDA elem : elem # i), i)
    /\ waiters' = RemoveAt(waiters, i)
    /\ last' = [NoEvent EXCEPT !.event = "timeout", !.waiter = i,
                               !.pending = InWaiting(waiting, i)]
    /\ UNCHANGED <<talks, version, reading, saved, response, crashed>>

\* the client of an unanswered long-polling request closes the connection;
\* the server has no listener for it, so nothing in the process changes
close(i) ==
    /\ last' = [NoEvent EXCEPT !.event = "close", !.waiter = i,
                               !.pending = InWaiting(waiting, i)]
    /\ UNCHANGED <<talks, version, waiting, waiters, reading, saved,
                   response, crashed>>

(***************************************************************************)
(* The request callback of createServer (src/unnamed/part_000 lines 53-72) *)
(***************************************************************************)
\* resolve returned null: the request goes to the static file server
fileServer(request) ==
    /\ last' = [NoEvent EXCEPT !.event = "request", !.request = request,
                               !.resolved = "null", !.handler = "fileServer"]
    /\ UNCHANGED <<talks, version, waiting, waiters, reading, saved,
                   response, crashed>>

\* decodeURIComponent threw inside resolve: nothing catches the error
uncaught(request) ==
    /\ crashed' = TRUE
    /\ last' = [NoEvent EXCEPT !.event = "request", !.request = request,
                               !.resolved = "throws"]
    /\ UNCHANGED <<talks, version, waiting, waiters, reading,
                   saved, response>>

(***************************************************************************)
(* The requests and bodies the clients send.                               *)
(***************************************************************************)
Quoted(s) == <<Quote>> \o s \o <<Quote>>

TalksUrl == Str(<<"/", "t", "a", "l", "k", "s">>)

TalkA == Str(<<"/", "t", "a", "l", "k", "s", "/", "a">>)

TalkAEscaped == Str(<<"/", "t", "a", "l", "k", "s", "/", "%", "6", "1">>)

MyTalkEscaped ==
    Str(<<"/", "t", "a", "l", "k", "s", "/", "M", "y", "%", "2", "0", "T",
          "a", "l", "k">>)

TalkMalformed == Str(<<"/", "t", "a", "l", "k", "s", "/", "%", "z", "z">>)

TalkAComments ==
    Str(<<"/", "t", "a", "l", "k", "s", "/", "a", "/", "c", "o", "m", "m",
          "e", "n", "t", "s">>)

TalksQuery == Str(<<"/", "t", "a", "l", "k", "s", "?", "a">>)

IfNoneMatchValues ==
    {Absent}
        \cup {Header(Quoted(NumberToString(v))) : v \in 0..MaxVersion}
        \cup { Header(Quoted(Str(<<"0", "0">>))) }

PreferValues ==
    { Absent,
      Header(Str(<<"w", "a", "i", "t", "=", "0">>)) }

Req(method, url) == [method |-> method, url |-> url, headers |-> NoHeaders]

\* the headers matter to GET /talks only
Requests ==
    { Req("GET", TalkA), Req("GET", TalkAEscaped), Req("GET", MyTalkEscaped),
      Req("DELETE", TalkA), Req("PUT", TalkA), Req("PUT", TalkAEscaped),
      Req("POST", TalkAComments),
      Req("GET", TalkAComments), Req("POST", TalkA),
      Req("GET", TalkMalformed), Req("GET", TalksQuery) }
        \cup {[method |-> "GET", url |-> TalksUrl,
               headers |-> [ifNoneMatch |-> t, prefer |-> p]] :
                 t \in IfNoneMatchValues, p \in PreferValues}

RequestBodies ==
    { [syntaxError |-> TRUE, json |-> JNull],
      [syntaxError |-> FALSE,
       json |-> JObject(<< <<"presenter", JString("Ann")>>,
                           <<"summary", JString("Hi")>> >>)],
      [syntaxError |-> FALSE,
       json |-> JObject(<< <<"presenter", JNumber("1")>>,
                           <<"summary", JString("Hi")>> >>)],
      [syntaxError |-> FALSE,
       json |-> JObject(<< <<"author", JString("Cy")>>,
                           <<"message", JString("Yo")>> >>)],
      [syntaxError |-> FALSE,
       json |-> JObject(<< <<"author", JString("Cy")>> >>)] }

\* router.resolve(this, request) for the requests of the model
Resolved == [request \in Requests |-> resolve(routes, request)]

(***************************************************************************)
(* The events of the process.                                              *)
(***************************************************************************)
\* an incoming request: router.resolve and the handler it invokes
Request(request) ==
    \E r \in {Resolved[request]} :
        /\ ~crashed
        /\ \/ r.type = "null" /\ fileServer(request)
           \/ r.type = "throws" /\ uncaught(request)
           \/ r.type = "handler" /\ r.handler = "getTalk"
                /\ getTalk(request, r.urlParts[1])
           \/ r.type = "handler" /\ r.handler = "deleteTalk"
                /\ deleteTalk(request, r.urlParts[1])
           \/ r.type = "handler" /\ r.handler = "putTalk"
                /\ putTalk(request, r.urlParts[1])
           \/ r.type = "handler" /\ r.handler = "postComment"
                /\ postComment(request, r.urlParts[1])
           \/ r.type = "handler" /\ r.handler = "getTalks"
                /\ getTalks(request)

\* the body of a PUT or POST request has been received
BodyEnd(i, requestBody) ==
    /\ ~crashed
    /\ putTalkBody(i, requestBody) \/ postCommentBody(i, requestBody)

\* the stream of a PUT or POST request fails
BodyError(i) == ~crashed /\ readStreamError(i)

\* a timer of waitForChanges runs
Timeout(i) == ~crashed /\ TimerDue(i) /\ timeout(i)

\* the client of a long-polling request that has no answer yet goes away
Close(i) ==
    /\ ~crashed
    /\ waiters[i].calls = 0
    /\ close(i)

Next ==
    \/ \E request \in Requests : Request(request)
    \/ \E i \in 1..Len(reading), requestBody \in RequestBodies :
          BodyEnd(i, requestBody)
    \/ \E i \in 1..Len(reading) : BodyError(i)
    \/ \E i \in 1..Len(waiters) : Timeout(i)
    \/ \E i \in 1..Len(waiters) : Close(i)

Spec == Init /\ [][Next]_vars

TypeOK ==
    /\ version \in 0..MaxVersion
    /\ Len(waiters) <= MaxWaiters
    /\ Len(reading) <= MaxInflight
    /\ \A i \in 1..Len(waiting) : waiting[i] \in 1..Len(waiters)

(***************************************************************************)
(* Properties.                                                             *)
(***************************************************************************)
\* the i-th waiter is in server.waiting
Pending(i) == InWaiting(waiting, i)

\* the last event is a request that the GET /talks handler served
ListRequest == last.event = "request" /\ last.handler = "getTalks"

\* the tag between the quotes of an If-None-Match header is the decimal
\* string of version ver
CurrentTag(h, ver) ==
    /\ h.present
    /\ tagExec(h.value).matched
    /\ tagExec(h.value).groups[1] = NumberToString(ver)

HasWait(h) == waitExec(HeaderText(h)).matched

ETagOf(ver) == Quoted(NumberToString(ver))

\* C1 (as claimed): when the timer of a held list request finds it still
\* waiting, so that no mutation came before the deadline, the request is
\* answered with 304.
C1_WaiterTimeout ==
    (last.event = "timeout" /\ last.pending) =>
        \E resp \in last.responses :
            resp.to = last.waiter /\ resp.status = 304

\* C2: the step of a successful mutation (the version changes) writes to
\* every waiter that was pending a response with status 200, the ETag of the
\* new version and the new collection as body, and leaves none pending.
C2_ReleaseConsistency ==
    [][version' # version =>
          \A i \in 1..Len(waiting) :
              /\ ~InWaiting(waiting', waiting[i])
              /\ \E resp \in last'.responses :
                    /\ resp.to = waiting[i]
                    /\ resp.status = 200
                    /\ "ETag" \in DOMAIN resp.headers
                    /\ resp.headers.ETag = ETagOf(version')
                    /\ resp.body = StringifyTalks(talks')
              /\ \A resp \in last'.responses :
                    resp.to = waiting[i] => resp.status = 200]_vars

C2_Witness ==
    /\ Cardinality({resp \in last.responses : resp.to > 0}) >= 2
    /\ last.event = "end"

\* C3: every member of the pending set is a waiter that was registered at
\* the current version and has no answer yet, and a waiter that is no
\* longer in the pending set while its timer has not run has been resolved.
C3_NoLostWakeup ==
    /\ \A i \in 1..Len(waiting) : waiting[i] \in 1..Len(waiters)
    /\ \A j \in 1..Len(waiters) :
          IF Pending(j)
          THEN waiters[j].ver = version /\ waiters[j].calls = 0
          ELSE waiters[j].calls >= 1

C3_Witness ==
    /\ version > 0
    /\ Len(reading) > 0
    /\ \E j \in 1..Len(waiters) : Pending(j)
    /\ \E j \in 1..Len(waiters) : waiters[j].calls >= 1

\* a body that parses to an object with the two named string members
ValidBody(requestBody, first, second) ==
    /\ ~requestBody.syntaxError
    /\ requestBody.json.t = "object"
    /\ TypeofMember(requestBody.json, first) = "string"
    /\ TypeofMember(requestBody.json, second) = "string"

\* the event l, handled on the talks tks, is a successful mutation
SuccessfulMutation(l, tks) ==
    \/ /\ l.event = "end"
       /\ l.handler = "putTalk"
       /\ ValidBody(l.requestBody, "presenter", "summary")
    \/ /\ l.event = "request"
       /\ l.handler = "deleteTalk"
       /\ HasTalk(tks, l.title)
    \/ /\ l.event = "end"
       /\ l.handler = "postComment"
       /\ ValidBody(l.requestBody, "author", "message")
       /\ HasTalk(tks, l.title)

\* C4: the version is 0 at the start, and every step adds to it 1 if the
\* event is a successful mutation and 0 otherwise.
C4_VersionExactness ==
    /\ version = 0
    /\ [][version' = version
                     + (IF SuccessfulMutation(last', talks) THEN 1 ELSE 0)]_vars

C4_Witness ==
    /\ version >= 2
    /\ last.event = "end"
    /\ last.handler = "postComment"
    /\ \E resp \in last.responses : resp.to = 0 /\ resp.status = 204

\* C5 (as claimed): a list request whose If-None-Match is absent, or whose
\* quoted value is not the decimal string of the version, is answered at
\* once with 200, the collection and the quoted version as ETag, and
\* registers no waiter.
C5_StaleValidator ==
    (ListRequest /\ ~CurrentTag(last.request.headers.ifNoneMatch, version)) =>
        /\ last.waiter = 0
        /\ last.responses = {Write(0, talkResponse(talks, version))}
        /\ \A resp \in last.responses :
              resp.status = 200 /\ resp.headers.ETag = ETagOf(version)

\* C6: a list request whose If-None-Match is the current version gets, with
\* no wait preference, the answer 304 and no waiter; with a wait preference
\* it gets no answer in that step and exactly one waiter is registered. No
\* waiter is ever answered with the snapshot of the version it came with.
C6_CurrentValidator ==
    [][/\ (/\ last'.event = "request"
           /\ last'.handler = "getTalks"
           /\ CurrentTag(last'.request.headers.ifNoneMatch, version)) =>
              IF HasWait(last'.request.headers.prefer)
              THEN /\ last'.responses = {}
                   /\ Len(waiters') = Len(waiters) + 1
                   /\ SubSeq(waiters', 1, Len(waiters)) = waiters
                   /\ last'.waiter = Len(waiters')
                   /\ waiting' = Append(waiting, last'.waiter)
              ELSE /\ last'.responses = {Write(0, [status |-> 304])}
                   /\ waiters' = waiters
                   /\ waiting' = waiting
       /\ \A resp \in last'.responses :
             resp.to > 0 =>
                 resp.headers.ETag # ETagOf(waiters[resp.to].ver)]_vars

C6_Witness ==
    /\ ListRequest
    /\ version > 0
    /\ CurrentTag(last.request.headers.ifNoneMatch, version)
    /\ last.waiter > 0
    /\ \E j \in 1..Len(waiters) : waiters[j].calls > 0

\* C7: resolve is called at most once for a waiter, and only for one that
\* was pending; a resolved waiter is not pending; a timer that runs removes
\* its waiter for good without resolving it, and if the waiter was no
\* longer pending it changes nothing else.
C7_NoDoubleResolution ==
    [][/\ \A j \in 1..Len(waiters') :
             /\ waiters'[j].calls <= 1
             /\ waiters'[j].calls = 1 => ~InWaiting(waiting', j)
       /\ \A i \in 1..Len(waiting') : waiting'[i] \in 1..Len(waiters')
       /\ \A resp \in last'.responses : resp.to > 0 => Pending(resp.to)
       /\ last'.event = "timeout" =>
             /\ last'.responses = {}
             /\ waiters' = RemoveAt(waiters, last'.waiter)
             /\ Len(waiting') = Len(waiting) - (IF last'.pending THEN 1 ELSE 0)
             /\ ~last'.pending =>
                   /\ waiting' = Renamed(waiting, last'.waiter)
                   /\ UNCHANGED <<talks, version>>]_vars

C7_Witness ==
    /\ last.event = "timeout"
    /\ ~last.pending
    /\ Len(waiting) > 0
    /\ version > 0

\* C8 (as claimed): once the client of a long-polling request has closed
\* the connection, the request is no longer in the pending set.
C8_Cancellation ==
    last.event = "close" => ~Pending(last.waiter)

\* a route of the right method matches the path of the request, and a
\* captured segment is not validly percent-encoded
MalformedCapture(request) ==
    \E i \in 1..Len(routes) :
        LET match == exec(routes[i].urlRegEx, Pathname(request.url))
        IN  /\ routes[i].method = request.method
            /\ match.matched
            /\ \E j \in 1..Len(match.groups) :
                  decodeURIComponent(match.groups[j]).threw

\* C9 (as claimed): a request with a malformed captured segment is answered
\* with a 4xx status and the process keeps running.
C9_MalformedEncoding ==
    (last.event = "request" /\ MalformedCapture(last.request)) =>
        /\ ~crashed
        /\ \E resp \in last.responses : resp.status \in 400..499

Patterns == {"talkPath", "talkPathAddComment", "talksPath"}

\* the registered routes in every order of registration
RouteOrders ==
    {[i \in 1..Len(routes) |-> routes[p[i]]] :
        p \in Permutations(1..Len(routes))}

\* what resolve gives for a request under each order of registration
ResolvedInAnyOrder ==
    [request \in Requests |-> {resolve(rts, request) : rts \in RouteOrders}]

\* C10: at most one of the three patterns matches the path of a request,
\* and under every order of registration resolve comes to the result it
\* came to: the same handler with the same captured title, null, or the
\* decode error.
C10_AnchoredMatching ==
    last.event = "request" =>
        /\ Cardinality({p \in Patterns :
                           exec(p, Pathname(last.request.url)).matched}) <= 1
        /\ \A r \in ResolvedInAnyOrder[last.request] :
              /\ r.type = last.resolved
              /\ r.type = "handler" =>
                    /\ r.handler = last.handler
                    /\ r.urlParts # <<>> => r.urlParts[1] = last.title

C10_Witness ==
    /\ last.event = "request"
    /\ last.request = Req("GET", TalkAComments)
    /\ last.resolved = "null"
    /\ talkPathAddComment(Pathname(last.request.url)).matched

\* the routes whose pattern matches the path of the request and whose
\* method is the method of the request
RoutesForRequest(request) ==
    {i \in 1..Len(routes) :
        /\ exec(routes[i].urlRegEx, Pathname(request.url)).matched
        /\ routes[i].method = request.method}

\* C11 (as claimed): resolve invokes the handler of the first route whose
\* pattern matches the path and whose method is the request's, and it
\* returns null, so that the request goes to the static file server,
\* exactly when there is no such route.
C11_MethodDiscrimination ==
    last.event = "request" =>
        IF RoutesForRequest(last.request) = {}
        THEN last.resolved = "null" /\ last.handler = "fileServer"
        ELSE /\ last.resolved = "handler"
             /\ last.handler
                  = routes[Min(RoutesForRequest(last.request))].handler

\* server.talks[title]
TalkOf(tks, title) == tks[IndexOfTalk(tks, title)]

\* the event l is the end of the body of a request to the given handler
BodyRead(l, handler) == l.event = "end" /\ l.handler = handler

\* the responses written to the request of the event itself
Answers(l) == {resp \in l.responses : resp.to = 0}

\* the step calls updated() once, after talks has its new value
UpdatedOnce ==
    /\ version' = version + 1
    /\ waiting' = <<>>
    /\ saved' = <<StringifyTalks(talks')>>
    /\ \A i \in 1..Len(waiting) :
          \E resp \in last'.responses : resp.to = waiting[i]

\* C12: when the body of a PUT has been read and it is an object with a
\* string presenter and a string summary, the talk {title, presenter,
\* summary, no comments} is stored under the title, new or in place of the
\* old one, updated() is called once and the answer is 204; any other body
\* is answered 400.  A stored talk stays, with its presenter and summary,
\* through every step that is not a successful mutation of its title, and
\* GET on its title answers 200 with that presenter and summary.
C12_PutContract ==
    [][/\ BodyRead(last', "putTalk") =>
             IF ValidBody(last'.requestBody, "presenter", "summary")
             THEN /\ HasTalk(talks', last'.title)
                  /\ TalkOf(talks', last'.title)
                       = [title |-> last'.title,
                          presenter |-> Member(last'.requestBody.json,
                                               "presenter"),
                          summary |-> Member(last'.requestBody.json,
                                             "summary"),
                          comments |-> <<>>]
                  /\ Len(talks') = IF HasTalk(talks, last'.title)
                                   THEN Len(talks) ELSE Len(talks) + 1
                  /\ UpdatedOnce
                  /\ Cardinality(Answers(last')) = 1
                  /\ \A resp \in Answers(last') : resp.status = 204
             ELSE /\ Cardinality(Answers(last')) = 1
                  /\ \A resp \in Answers(last') : resp.status = 400
       /\ \A i \in 1..Len(talks) :
             ~(SuccessfulMutation(last', talks)
                  /\ last'.title = talks[i].title) =>
                 /\ HasTalk(talks', talks[i].title)
                 /\ TalkOf(talks', talks[i].title).presenter
                      = talks[i].presenter
                 /\ TalkOf(talks', talks[i].title).summary = talks[i].summary
       /\ (/\ last'.event = "request"
           /\ last'.handler = "getTalk"
           /\ HasTalk(talks, last'.title)) =>
             /\ Cardinality(Answers(last')) = 1
             /\ \A resp \in Answers(last') :
                   /\ resp.status = 200
                   /\ resp.body.kind = "json object"
                   /\ resp.body.value.presenter
                        = TalkOf(talks, last'.title).presenter
                   /\ resp.body.value.summary
                        = TalkOf(talks, last'.title).summary]_vars

C12_Witness ==
    /\ BodyRead(last, "putTalk")
    /\ ValidBody(last.requestBody, "presenter", "summary")
    /\ version = 2
    /\ \E resp \in last.responses : resp.to > 0
    /\ \E resp \in last.responses : resp.to = 0 /\ resp.status = 204

\* C13: DELETE on a title is answered 204.  If a talk is stored under the
\* title, the step removes it and calls updated() once: the version goes up
\* by one and every pending waiter is answered and leaves the pending set.
\* If none is, talks, version and the pending set stay as they are and no
\* waiter is answered.
C13_DeleteContract ==
    [][(last'.event = "request" /\ last'.handler = "deleteTalk") =>
          /\ Cardinality(Answers(last')) = 1
          /\ \A resp \in Answers(last') : resp.status = 204
          /\ IF HasTalk(talks, last'.title)
             THEN /\ ~HasTalk(talks', last'.title)
                  /\ Len(talks') = Len(talks) - 1
                  /\ UpdatedOnce
             ELSE /\ UNCHANGED <<talks, version, waiting, waiters>>
                  /\ last'.responses = Answers(last')]_vars

C13_Witness ==
    /\ last.event = "request"
    /\ last.handler = "deleteTalk"
    /\ version > 0
    /\ ~HasTalk(talks, last.title)
    /\ \E resp \in last.responses : resp.to > 0 /\ resp.status = 200

\* C14: when the body of a POST of a comment has been read, a body that
\* does not parse or is not an object with a string author and a string
\* message is answered with a status from 400 to 499; a valid body for a
\* title no talk is stored under at that moment is answered 404 with
\* "No talk '{title}' found"; a valid body for a stored talk is appended as
\* the last of its comments, updated() is called once and the answer is 204.
C14_PostCommentContract ==
    [][BodyRead(last', "postComment") =>
          /\ Cardinality(Answers(last')) = 1
          /\ IF ~ValidBody(last'.requestBody, "author", "message")
             THEN \A resp \in Answers(last') : resp.status \in 400..499
             ELSE IF ~HasTalk(talks, last'.title)
             THEN \A resp \in Answers(last') :
                     /\ resp.status = 404
                     /\ resp.body = NoTalkFound(last'.title)
             ELSE /\ HasTalk(talks', last'.title)
                  /\ TalkOf(talks', last'.title)
                       = [TalkOf(talks, last'.title) EXCEPT
                             !.comments = Append(@, last'.requestBody.json)]
                  /\ Len(talks') = Len(talks)
                  /\ UpdatedOnce
                  /\ \A resp \in Answers(last') : resp.status = 204]_vars

C14_Witness ==
    /\ BodyRead(last, "postComment")
    /\ HasTalk(talks, last.title)
    /\ Len(TalkOf(talks, last.title).comments) >= 2
    /\ TalkOf(talks, last.title).comments[
           Len(TalkOf(talks, last.title).comments)] = last.requestBody.json
    /\ \E resp \in last.responses : resp.to = 0 /\ resp.status = 204

\* the sequence s is the start of the sequence t
IsPrefix(s, t) == Len(s) <= Len(t) /\ SubSeq(t, 1, Len(s)) = s

\* the event l is a PUT on the given title whose body was accepted
PutAccepted(l, title) ==
    /\ BodyRead(l, "putTalk")
    /\ ValidBody(l.requestBody, "presenter", "summary")
    /\ l.title = title

\* C15 (as claimed): in every step, for every title that holds a talk
\* before and after it, the comments before the step are a prefix of the
\* comments after it.
C15_AppendOnly ==
    [][\A i \in 1..Len(talks) :
          HasTalk(talks', talks[i].title) =>
              IsPrefix(talks[i].comments,
                       TalkOf(talks', talks[i].title).comments)]_vars

\* C15 (amended): in every step, for every title that holds a talk before
\* and after it, the comments before the step are a prefix of the comments
\* after it, unless the step is an accepted PUT on that title, which
\* replaces the talk by one without comments.
C15_AppendOnlyUnlessPut ==
    [][\A i \in 1..Len(talks) :
          HasTalk(talks', talks[i].title) =>
              IF PutAccepted(last', talks[i].title)
              THEN TalkOf(talks', talks[i].title).comments = <<>>
              ELSE IsPrefix(talks[i].comments,
                            TalkOf(talks', talks[i].title).comments)]_vars

C15_Witness ==
    /\ BodyRead(last, "postComment")
    /\ \E i \in 1..Len(talks) :
          /\ Len(talks[i].comments) >= 2
          /\ talks[i].comments[1] # talks[i].comments[2]
          /\ talks[i].title = last.title

\* C16: GET on a title is answered 200 with the talk stored under it, or
\* 404 with "No talk '{title}' found" if there is none, and the step
\* leaves talks, version and the pending set as they are and answers no
\* waiter.
C16_GetTalkReadOnly ==
    [][(last'.event = "request" /\ last'.handler = "getTalk") =>
          /\ UNCHANGED <<talks, version, waiting, waiters, saved>>
          /\ last'.responses = Answers(last')
          /\ Cardinality(Answers(last')) = 1
          /\ \A resp \in Answers(last') :
                IF HasTalk(talks, last'.title)
                THEN /\ resp.status = 200
                     /\ resp.body = StringifyTalk(TalkOf(talks, last'.title))
                ELSE /\ resp.status = 404
                     /\ resp.body = NoTalkFound(last'.title)]_vars

C16_Witness ==
    /\ last.event = "request"
    /\ last.handler = "getTalk"
    /\ version > 0
    /\ Len(waiting) > 0
    /\ \E resp \in last.responses : resp.status = 200

TitleA == Str(<<"a">>)

MyTalk == Str(<<"M", "y", " ", "T", "a", "l", "k">>)

\* C17: the handler gets the captured segment percent-decoded: the path
\* /talks/My%20Talk gives the title "My Talk", and /talks/a and /talks/%61
\* both give the title "a".  Talks are stored under the decoded title, so
\* a PUT on either path reads its body for the title "a", no talk is ever
\* stored under another key, and a GET on either path answers with the
\* talk stored under "a" or says that there is none.
C17_CaptureDecoding ==
    /\ \A i \in 1..Len(talks) : talks[i].title = TitleA
    /\ \A i \in 1..Len(reading) : reading[i].title = TitleA
    /\ (last.event = "request" /\ last.request.url = MyTalkEscaped) =>
          /\ last.handler = "getTalk"
          /\ last.title = MyTalk
          /\ \A resp \in last.responses :
                resp.status = 404 /\ resp.body = NoTalkFound(MyTalk)
    /\ (/\ last.event = "request"
        /\ last.request.url \in {TalkA, TalkAEscaped}
        /\ last.request.method \in {"GET", "PUT", "DELETE"}) =>
          /\ last.resolved = "handler"
          /\ last.title = TitleA
          /\ last.handler = "getTalk" =>
                /\ last.responses # {}
                /\ \A resp \in last.responses :
                      IF HasTalk(talks, TitleA)
                      THEN resp.body = StringifyTalk(TalkOf(talks, TitleA))
                      ELSE resp.body = NoTalkFound(TitleA)

C17_Witness ==
    /\ last.event = "request"
    /\ last.request = Req("GET", TalkAEscaped)
    /\ version > 0
    /\ \E resp \in last.responses :
          /\ resp.status = 200
          /\ resp.body.value.presenter = "Ann"

\* the responses of an event that carry an ETag: the answers of the
\* GET /talks handler with the collection, at once or to a released waiter
Snapshots(l) ==
    {resp \in l.responses :
        resp.status = 200 /\ "ETag" \in DOMAIN resp.headers}

\* C18: the version never goes down, a step that changes the talks adds
\* one to it, and every response with the collection carries the ETag of
\* the version and the collection of the state the step ends in.  So the
\* responses that carry one ETag were all written while the version was
\* the same, the talks did not change between them, and their bodies are
\* the same.
C18_VersionIdentifiesContent ==
    [][/\ version' >= version
       /\ talks' # talks => version' = version + 1
       /\ \A resp \in Snapshots(last') :
             /\ resp.headers.ETag = ETagOf(version')
             /\ resp.body = StringifyTalks(talks')]_vars

C18_Witness ==
    /\ ListRequest
    /\ version > 0
    /\ \E resp \in Snapshots(last) : resp.to = 0
    /\ \E j \in 1..Len(waiters) :
          waiters[j].calls > 0 /\ waiters[j].ver = version - 1

(***************************************************************************)
(* Timers run: a timer that is due does not stay due for ever while the    *)
(* process runs.                                                           *)
(***************************************************************************)
TimerRuns == \E i \in 1..Len(waiters) : Timeout(i)

LiveSpec == Spec /\ WF_vars(TimerRuns)

\* no waitForChanges call is made in the step
NoNewWaiter == Len(waiters') <= Len(waiters)

\* C19 (as claimed): the pending set holds only waiters whose timer has not
\* run and that have not been resolved, and once no further list request
\* adds a waiter the pending set becomes empty and stays empty.
C19_PendingSetDrains ==
    /\ [](\A i \in 1..Len(waiting) :
             /\ waiting[i] \in 1..Len(waiters)
             /\ waiters[waiting[i]].calls = 0
             /\ \A j \in 1..Len(waiting) : waiting[j] = waiting[i] => j = i)
    /\ <>[][NoNewWaiter]_vars => <>[](Len(waiting) = 0)

\* the request of the event was answered with a 400 or 404 status
Rejected(l) == \E resp \in Answers(l) : resp.status \in {400, 404}

\* C20: a PUT or POST comment request that is answered 400 or 404 leaves
\* talks, the version and the pending waiters as they were and resolves no
\* waiter, in the step that receives the request as in the step that reads
\* its body and answers.
C20_RejectedNoEffect ==
    [][/\ (/\ last'.event = "request"
           /\ last'.handler \in {"putTalk", "postComment"}) =>
             /\ UNCHANGED <<talks, version, waiting, waiters, saved>>
             /\ last'.responses = {}
       /\ (/\ \/ BodyRead(last', "putTalk")
              \/ BodyRead(last', "postComment")
           /\ Rejected(last')) =>
             /\ UNCHANGED <<talks, version, waiting, waiters, saved>>
             /\ last'.responses = Answers(last')
             /\ Cardinality(last'.responses) = 1]_vars

C20_Witness ==
    /\ BodyRead(last, "postComment")
    /\ \E resp \in Answers(last) : resp.status = 404
    /\ ~HasTalk(talks, last.title)
    /\ Len(waiting) > 0
    /\ version > 0

====
